---- MODULE Spec2Model ----
(***************************************************************************)
(* Appointment booking of the dental system API: the Booking table, the    *)
(* BookingViewSet handlers (create, update, partial_update, destroy,       *)
(* cancel, confirm, complete), the serializers' validation and the         *)
(* permission classes that gate them.                                      *)
(*                                                                         *)
(* Time is counted in minutes from 00:00 of a Monday (day 0), so that      *)
(* date(), hour and weekday() are computed as datetime computes them.      *)
(* Free text (reason, notes) is a sequence of tokens; <<>> is the blank    *)
(* string.  An optional request field is a set with at most one element.   *)
(***************************************************************************)
EXTENDS Integers, Sequences, FiniteSets, TLC

VARIABLES
    bookings,   \* the Booking table: id -> row
    nextId,     \* the next primary key the table hands out
    last,       \* the last response: which handler, for whom, with what outcome
    inflight    \* per worker: the create request it is in the middle of

vars == <<bookings, nextId, last, inflight>>

-----------------------------------------------------------------------------
(* Bounds and program constants *)

MaxBookings == 2

SlotMinutes == 30
WorkStartHour == 8
WorkEndHour == 20
ClosedWeekday == 4

At(day, hour, minute) == day * 1440 + hour * 60 + minute

\* comparing whole timestamps where the code compares dates
DateOf_WholeTimestamp(t) == t

\* appointment_datetime.date(), and the __date lookup
DateOf(t) == t \div 1440

\* value.hour
HourOf(t) == (t % 1440) \div 60

\* value.weekday(): Monday is 0
WeekdayOf(t) == (t \div 1440) % 7

\* datetime.now() and timezone.now(): one clock, read as Monday 09:00; naive and
\* aware values are taken to name instants of that clock
Now == At(0, 9, 0)

-----------------------------------------------------------------------------
(* Accounts *)

Accounts == {"adm", "rec", "doc1", "doc2", "doc3", "pat1", "pat2"}

UserType(u) ==
    CASE u = "adm" -> "admin"
      [] u = "rec" -> "receptionist"
      [] u \in {"doc1", "doc2", "doc3"} -> "doctor"
      [] OTHER -> "patient"

\* doc3 is a deactivated account: it cannot log in but can be named in a request
IsActive(u) == u # "doc3"

NoUser == "none"

-----------------------------------------------------------------------------
(* The Booking table *)

Statuses == {"pending", "confirmed", "completed", "cancelled"}

Blank == <<>>
CancelPrefix == "cancel_reason:"

Row(p, d, t, s, r, n) ==
    [patient |-> p, doctor |-> d, at |-> t, status |-> s, reason |-> r, notes |-> n]

Ids == DOMAIN bookings

\* the queries without their exclude(status='cancelled')
NotCancelled_All(db) == DOMAIN db

\* Booking.objects ... .exclude(status='cancelled')
NotCancelled(db) == {i \in DOMAIN db : db[i].status # "cancelled"}

\* the shape of the state: rows of the Booking model under their primary keys
TypeOK ==
    /\ nextId \in Nat \ {0}
    /\ DOMAIN bookings \subseteq 1 .. (nextId - 1)
    /\ \A i \in DOMAIN bookings :
          /\ UserType(bookings[i].patient) = "patient"
          /\ UserType(bookings[i].doctor) = "doctor"
          /\ bookings[i].at \in Nat
          /\ bookings[i].status \in Statuses
          /\ bookings[i].reason \in Seq(STRING)
          /\ bookings[i].notes \in Seq(STRING)

-----------------------------------------------------------------------------
(* Responses *)

Resp(op, u, id, code, errors) ==
    [op |-> op, user |-> u, id |-> id, code |-> code, errors |-> errors]

Succeeded(r) == r.code \in {"200", "201"}

-----------------------------------------------------------------------------
(* Field validation of the serializers *)

\* validate_future_date: the value must be after datetime.now()
FutureDateErrors(t) == IF t <= Now THEN {"past"} ELSE {}

\* the working hours taken to include the closing hour
CalendarErrors_ClosingHourOpen(t) ==
    IF FutureDateErrors(t) # {} THEN FutureDateErrors(t)
    ELSE IF HourOf(t) < WorkStartHour \/ HourOf(t) > WorkEndHour THEN {"outside_hours"}
    ELSE IF WeekdayOf(t) = ClosedWeekday THEN {"closed_day"}
    ELSE {}

\* validate_appointment_datetime: the first failing check raises
CalendarErrors(t) ==
    IF FutureDateErrors(t) # {} THEN FutureDateErrors(t)
    ELSE IF HourOf(t) < WorkStartHour \/ HourOf(t) >= WorkEndHour THEN {"outside_hours"}
    ELSE IF WeekdayOf(t) = ClosedWeekday THEN {"closed_day"}
    ELSE {}

\* the patient field is required; validate_patient
PatientErrors(p) ==
    IF p = NoUser THEN {"patient_required"}
    ELSE IF UserType(p) # "patient" THEN {"not_patient"}
    ELSE IF ~IsActive(p) THEN {"patient_inactive"}
    ELSE {}

\* validate_doctor
DoctorErrors(d) ==
    IF UserType(d) # "doctor" THEN {"not_doctor"}
    ELSE IF ~IsActive(d) THEN {"doctor_inactive"}
    ELSE {}

\* run_validation collects the errors of all fields
CreateFieldErrors(p, d, t) == PatientErrors(p) \cup DoctorErrors(d) \cup CalendarErrors(t)

-----------------------------------------------------------------------------
(* Conflict checks *)

\* BookingCreateSerializer.validate, first query: the patient's bookings of that date
PatientHasBookingOn(db, p, t) ==
    \E i \in NotCancelled(db) : db[i].patient = p /\ DateOf(db[i].at) = DateOf(t)

\* the doctor counted busy only at exactly the requested time
DoctorBusyAround_ExactTime(db, d, t) ==
    \E i \in NotCancelled(db) : db[i].doctor = d /\ db[i].at = t

\* the doctor counted busy in the closed window [start - 30 min, start + 30 min]
DoctorBusyAround_ClosedWindow(db, d, t) ==
    \E i \in NotCancelled(db) :
        /\ db[i].doctor = d
        /\ db[i].at >= t - SlotMinutes
        /\ db[i].at <= t + SlotMinutes

\* BookingCreateSerializer.validate, second query: the doctor's bookings in
\* [start - 30 min, start + 30 min)
DoctorBusyAround(db, d, t) ==
    \E i \in NotCancelled(db) :
        /\ db[i].doctor = d
        /\ db[i].at >= t - SlotMinutes
        /\ db[i].at < t + SlotMinutes

\* the doctor check raising before the patient check
ConflictErrors_DoctorFirst(db, p, d, t) ==
    IF DoctorBusyAround(db, d, t) THEN {"doctor_slot_conflict"}
    ELSE IF PatientHasBookingOn(db, p, t) THEN {"patient_day_conflict"}
    ELSE {}

\* BookingCreateSerializer.validate: the patient check raises before the doctor check
ConflictErrors(db, p, d, t) ==
    IF PatientHasBookingOn(db, p, t) THEN {"patient_day_conflict"}
    ELSE IF DoctorBusyAround(db, d, t) THEN {"doctor_slot_conflict"}
    ELSE {}

\* clean checking only rows that are not yet inserted
CleanRejects_InsertOnly(db, row, pk) ==
    /\ pk = 0
    /\ \E i \in NotCancelled(db) :
          db[i].patient = row.patient /\ DateOf(db[i].at) = DateOf(row.at)

\* clean counting the saved booking itself among the patient's bookings
CleanRejects_CountsItself(db, row, pk) ==
    \E i \in NotCancelled(db) :
        db[i].patient = row.patient /\ DateOf(db[i].at) = DateOf(row.at)

\* Booking.clean: another non-cancelled booking of the patient on the row's date;
\* pk is 0 for a row not yet inserted
CleanRejects(db, row, pk) ==
    \E i \in NotCancelled(db) \ {pk} :
        db[i].patient = row.patient /\ DateOf(db[i].at) = DateOf(row.at)

-----------------------------------------------------------------------------
(* Permissions *)

IsOffice(u) == UserType(u) \in {"admin", "receptionist"}

\* IsStaff.has_permission
IsStaff(u) == UserType(u) \in {"admin", "doctor", "receptionist"}

\* a permission that lets a patient name any patient
CanCreateBooking_AnyPatient(u, p) == IsOffice(u) \/ UserType(u) = "patient"

\* CanCreateBooking.has_permission (POST)
CanCreateBooking(u, p) ==
    \/ IsOffice(u)
    \/ UserType(u) = "patient" /\ (p = NoUser \/ p = u)

\* CanUpdateBooking.has_object_permission
CanUpdateBooking(u, row) ==
    \/ IsOffice(u)
    \/ UserType(u) = "doctor" /\ row.doctor = u
    \/ UserType(u) = "patient" /\ row.patient = u /\ row.status = "pending"

\* CanCancelBooking.has_object_permission
CanCancelBooking(u, row) ==
    \/ IsOffice(u)
    \/ UserType(u) = "doctor" /\ row.doctor = u
    \/ UserType(u) = "patient" /\ row.patient = u /\ row.status \in {"pending", "confirmed"}

\* BookingViewSet.get_queryset: the rows the requester can address
InQueryset(u, row) ==
    \/ IsOffice(u)
    \/ UserType(u) = "doctor" /\ row.doctor = u
    \/ UserType(u) = "patient" /\ row.patient = u

\* get_object finding every stored row and asking no permission
ObjectCode_AnyRow(u, id, allowed) == IF id \notin Ids THEN "404" ELSE "200"

\* get_object: 404 outside the queryset, then 403 from the object permission
ObjectCode(u, id, allowed) ==
    IF id \notin Ids \/ ~InQueryset(u, bookings[id]) THEN "404"
    ELSE IF ~allowed THEN "403"
    ELSE "200"

-----------------------------------------------------------------------------
(* Initial state *)

Procs == {"w1", "w2"}

Idle == [pc |-> "idle", user |-> NoUser, patient |-> NoUser, doctor |-> NoUser,
         at |-> 0, code |-> "none"]

NoResp == Resp("none", NoUser, 0, "none", {})

Init ==
    /\ bookings = <<>>
    /\ nextId = 1
    /\ last = NoResp
    /\ inflight = [w \in Procs |-> Idle]

\* Model.save after clean: INSERT with a fresh primary key
Insert(db, row) == [i \in DOMAIN db \cup {nextId} |-> IF i = nextId THEN row ELSE db[i]]

\* Model.save after clean: UPDATE of the row with primary key id
Store(db, id, row) == [db EXCEPT ![id] = row]

-----------------------------------------------------------------------------
(* BookingViewSet.create, run without interleaving *)

\* a row that starts confirmed when the office creates it
NewRow_OfficeConfirms(u, p, d, t, r, n) ==
    Row(IF UserType(u) = "patient" THEN u ELSE p, d, t,
        IF IsOffice(u) THEN "confirmed" ELSE "pending", r, n)

\* BookingCreateSerializer.create: status is pending, a patient books for themselves
NewRow(u, p, d, t, r, n) ==
    Row(IF UserType(u) = "patient" THEN u ELSE p, d, t, "pending", r, n)

Create(u, p, d, t, r, n) ==
    /\ UNCHANGED inflight
    /\ IF ~CanCreateBooking(u, p)
       THEN /\ last' = Resp("create", u, 0, "403", {"denied"})
            /\ UNCHANGED <<bookings, nextId>>
       ELSE IF CreateFieldErrors(p, d, t) # {}
       THEN /\ last' = Resp("create", u, 0, "400", CreateFieldErrors(p, d, t))
            /\ UNCHANGED <<bookings, nextId>>
       ELSE IF ConflictErrors(bookings, p, d, t) # {}
       THEN /\ last' = Resp("create", u, 0, "400", ConflictErrors(bookings, p, d, t))
            /\ UNCHANGED <<bookings, nextId>>
       ELSE IF CleanRejects(bookings, NewRow(u, p, d, t, r, n), 0)
       THEN /\ last' = Resp("create", u, 0, "500", {"clean_rejected"})
            /\ UNCHANGED <<bookings, nextId>>
       ELSE /\ nextId <= MaxBookings
            /\ bookings' = Insert(bookings, NewRow(u, p, d, t, r, n))
            /\ nextId' = nextId + 1
            /\ last' = Resp("create", u, nextId, "201", {})

-----------------------------------------------------------------------------
(* BookingViewSet.update and partial_update *)

\* validated_data.get(field, current)
Pick(given, current) == IF given = {} THEN current ELSE CHOOSE x \in given : TRUE

\* BookingUpdateSerializer.validate_status: runs when the body carries a status
StatusErrors(row, body) ==
    IF body.status = {} THEN {}
    ELSE IF row.status = "cancelled" THEN {"cancelled_locked"}
    ELSE IF row.status = "completed" THEN {"completed_locked"}
    ELSE {}

\* is_valid of BookingUpdateSerializer: appointment_datetime is the one field a
\* PUT requires; validate_appointment_datetime; validate_status
UpdateFieldErrors(row, partial, body) ==
    (IF body.at = {}
     THEN (IF partial THEN {} ELSE {"datetime_required"})
     ELSE CalendarErrors(Pick(body.at, 0)))
    \cup StatusErrors(row, body)

\* a patient's request writing the time as well as the reason
UpdatedRow_PatientReschedules(u, row, body) ==
    IF UserType(u) = "patient"
    THEN [row EXCEPT !.reason = Pick(body.reason, row.reason),
                     !.at = Pick(body.at, row.at)]
    ELSE IF UserType(u) = "doctor"
    THEN [row EXCEPT !.status = Pick(body.status, row.status),
                     !.notes = Pick(body.notes, row.notes)]
    ELSE [row EXCEPT !.at = Pick(body.at, row.at),
                     !.status = Pick(body.status, row.status),
                     !.reason = Pick(body.reason, row.reason),
                     !.notes = Pick(body.notes, row.notes)]

\* every role writing every field the body carries
UpdatedRow_AllFields(u, row, body) ==
    [row EXCEPT !.at = Pick(body.at, row.at),
                !.status = Pick(body.status, row.status),
                !.reason = Pick(body.reason, row.reason),
                !.notes = Pick(body.notes, row.notes)]

\* BookingUpdateSerializer.update: what each role's request writes to the row
UpdatedRow(u, row, body) ==
    IF UserType(u) = "patient"
    THEN [row EXCEPT !.reason = Pick(body.reason, row.reason)]
    ELSE IF UserType(u) = "doctor"
    THEN [row EXCEPT !.status = Pick(body.status, row.status),
                     !.notes = Pick(body.notes, row.notes)]
    ELSE [row EXCEPT !.at = Pick(body.at, row.at),
                     !.status = Pick(body.status, row.status),
                     !.reason = Pick(body.reason, row.reason),
                     !.notes = Pick(body.notes, row.notes)]

\* BookingUpdateSerializer.update: a patient's request on a booking that is not pending
UpdateRefused(u, row) == UserType(u) = "patient" /\ row.status # "pending"

\* an update that writes the row before clean() refuses it
Update_WritesBeforeClean(u, id, partial, body) ==
    LET op == "update"
        code == ObjectCode(u, id, CanUpdateBooking(u, bookings[id]))
    IN  /\ UNCHANGED <<nextId, inflight>>
        /\ IF code # "200"
           THEN /\ last' = Resp(op, u, id, code, {"denied"})
                /\ UNCHANGED bookings
           ELSE IF UpdateFieldErrors(bookings[id], partial, body) # {}
           THEN /\ last' = Resp(op, u, id, "400", UpdateFieldErrors(bookings[id], partial, body))
                /\ UNCHANGED bookings
           ELSE IF UpdateRefused(u, bookings[id])
           THEN /\ last' = Resp(op, u, id, "400", {"not_pending"})
                /\ UNCHANGED bookings
           ELSE /\ bookings' = Store(bookings, id, UpdatedRow(u, bookings[id], body))
                /\ last' = IF CleanRejects(bookings, UpdatedRow(u, bookings[id], body), id)
                           THEN Resp(op, u, id, "500", {"clean_rejected"})
                           ELSE Resp(op, u, id, "200", {})

Update(u, id, partial, body) ==
    LET op == "update"
        code == ObjectCode(u, id, CanUpdateBooking(u, bookings[id]))
    IN  /\ UNCHANGED <<nextId, inflight>>
        /\ IF code # "200"
           THEN /\ last' = Resp(op, u, id, code, {"denied"})
                /\ UNCHANGED bookings
           ELSE IF UpdateFieldErrors(bookings[id], partial, body) # {}
           THEN /\ last' = Resp(op, u, id, "400", UpdateFieldErrors(bookings[id], partial, body))
                /\ UNCHANGED bookings
           ELSE IF UpdateRefused(u, bookings[id])
           THEN /\ last' = Resp(op, u, id, "400", {"not_pending"})
                /\ UNCHANGED bookings
           ELSE IF CleanRejects(bookings, UpdatedRow(u, bookings[id], body), id)
           THEN /\ last' = Resp(op, u, id, "500", {"clean_rejected"})
                /\ UNCHANGED bookings
           ELSE /\ bookings' = Store(bookings, id, UpdatedRow(u, bookings[id], body))
                /\ last' = Resp(op, u, id, "200", {})

-----------------------------------------------------------------------------
(* BookingViewSet.destroy *)

Destroy(u, id) ==
    LET code == IF ~IsStaff(u) THEN "403" ELSE ObjectCode(u, id, TRUE)
    IN  /\ UNCHANGED <<nextId, inflight>>
        /\ IF code # "200"
           THEN /\ last' = Resp("destroy", u, id, code, {"denied"})
                /\ UNCHANGED bookings
           ELSE /\ bookings' = [i \in Ids \ {id} |-> bookings[i]]
                /\ last' = Resp("destroy", u, id, "200", {})

-----------------------------------------------------------------------------
(* The custom actions: cancel, confirm, complete.  get_permissions returns     *)
(* CanCancelBooking for all three; it does not consult the permission_classes  *)
(* of the @action decorator.                                                   *)

\* get_permissions: the permission class in force for a custom action
ActionPermission(action, u, row) == CanCancelBooking(u, row)

\* cancel: the status checks
CancelErrors(row) ==
    IF row.status = "cancelled" THEN {"already_cancelled"}
    ELSE IF row.status = "completed" THEN {"completed_locked"}
    ELSE {}

\* cancel: the row written; a non-blank reason replaces the notes
CancelledRow(row, r) ==
    [row EXCEPT !.status = "cancelled",
                !.notes = IF r # Blank THEN <<CancelPrefix>> \o r ELSE row.notes]

\* confirm refusing only what complete refuses
ConfirmErrors_AsComplete(row) ==
    IF row.status = "cancelled" THEN {"cancelled_locked"}
    ELSE IF row.status = "completed" THEN {"already_completed"}
    ELSE {}

\* confirm: the status check
ConfirmErrors(row) == IF row.status # "pending" THEN {"not_pending"} ELSE {}

\* complete accepting only a confirmed booking
CompleteErrors_ConfirmedOnly(row) ==
    IF row.status = "cancelled" THEN {"cancelled_locked"}
    ELSE IF row.status = "completed" THEN {"already_completed"}
    ELSE IF row.status # "confirmed" THEN {"not_confirmed"}
    ELSE {}

\* complete: the status checks
CompleteErrors(row) ==
    IF row.status = "cancelled" THEN {"cancelled_locked"}
    ELSE IF row.status = "completed" THEN {"already_completed"}
    ELSE {}

\* the common shape of the three handlers: get_object, status check, save
Transition(op, u, id, errors, row) ==
    LET code == ObjectCode(u, id, ActionPermission(op, u, bookings[id]))
    IN  /\ UNCHANGED <<nextId, inflight>>
        /\ IF code # "200"
           THEN /\ last' = Resp(op, u, id, code, {"denied"})
                /\ UNCHANGED bookings
           ELSE IF errors # {}
           THEN /\ last' = Resp(op, u, id, "400", errors)
                /\ UNCHANGED bookings
           ELSE IF CleanRejects(bookings, row, id)
           THEN /\ last' = Resp(op, u, id, "500", {"clean_rejected"})
                /\ UNCHANGED bookings
           ELSE /\ bookings' = Store(bookings, id, row)
                /\ last' = Resp(op, u, id, "200", {})

Cancel(u, id, r) ==
    Transition("cancel", u, id, CancelErrors(bookings[id]), CancelledRow(bookings[id], r))

Confirm(u, id) ==
    Transition("confirm", u, id, ConfirmErrors(bookings[id]),
               [bookings[id] EXCEPT !.status = "confirmed"])

Complete(u, id) ==
    Transition("complete", u, id, CompleteErrors(bookings[id]),
               [bookings[id] EXCEPT !.status = "completed"])

-----------------------------------------------------------------------------
(* BookingViewSet.available_slots.  A calendar date is a day number, the date   *)
(* query parameter is a record telling whether it parses and to which day, and  *)
(* a listed slot is the text strftime prints: date, hour, minute, second.       *)

start_hour == 8
end_hour == 20

\* for minute in [0, 30]
slot_minutes == <<0, 30>>

\* value.minute
MinuteOf(t) == t % 60

\* date.weekday(): Monday is 0
DateWeekday(date) == date % 7

\* datetime.strptime(date_str, '%Y-%m-%d').date(); no value on ValueError
ParseDate(date_str) == IF date_str.wellformed THEN {date_str.day} ELSE {}

\* a listing that never takes a date for past
DateIsPast_Never(date) == FALSE

\* date < timezone.now().date()
DateIsPast(date) == date < DateOf(Now)

\* the doctor's bookings of the date, cancelled ones included
existing_bookings_WithCancelled(db, doctor_id, date) ==
    {db[i].at : i \in {j \in DOMAIN db : db[j].doctor = doctor_id /\ DateOf(db[j].at) = date}}

\* Booking.objects.filter(doctor_id=, appointment_datetime__date=)
\*     .exclude(status='cancelled').values_list('appointment_datetime')
existing_bookings(db, doctor_id, date) ==
    {db[i].at : i \in {j \in NotCancelled(db) :
                          db[j].doctor = doctor_id /\ DateOf(db[j].at) = date}}

\* the grid running through the closing hour
slot_time_ThroughClosing(date) ==
    [k \in 1 .. (end_hour - start_hour + 1) * Len(slot_minutes) |->
        At(date, start_hour + ((k - 1) \div Len(slot_minutes)),
           slot_minutes[((k - 1) % Len(slot_minutes)) + 1])]

\* the slot times in the order the two loops produce them
slot_time(date) ==
    [k \in 1 .. (end_hour - start_hour) * Len(slot_minutes) |->
        At(date, start_hour + ((k - 1) \div Len(slot_minutes)),
           slot_minutes[((k - 1) % Len(slot_minutes)) + 1])]

\* slot_time.strftime('%Y-%m-%d %H:%M:%S')
strftime(t) == <<DateOf(t), HourOf(t), MinuteOf(t), 0>>

\* the loop body: a slot is listed when it is not booked and is after now
ListedSlots(db, doctor_id, date) ==
    LET booked == existing_bookings(db, doctor_id, date)
        free == SelectSeq(slot_time(date), LAMBDA t : t \notin booked /\ t > Now)
    IN  [k \in 1 .. Len(free) |-> strftime(free[k])]

\* the response of available_slots; the Friday response carries no count
available_slots(db, u, doctor_id, date_str) ==
    LET op == "available_slots"
        date == CHOOSE x \in ParseDate(Pick(date_str, [wellformed |-> FALSE, day |-> 0])) : TRUE
        listed == ListedSlots(db, Pick(doctor_id, NoUser), date)
    IN  IF doctor_id = {} \/ date_str = {}
        THEN Resp(op, u, 0, "400", {"doctor_and_date_required"})
        ELSE IF ParseDate(Pick(date_str, [wellformed |-> FALSE, day |-> 0])) = {}
        THEN Resp(op, u, 0, "400", {"date_format"})
        ELSE IF DateIsPast(date)
        THEN Resp(op, u, 0, "400", {"past_date"})
        ELSE IF DateWeekday(date) = 4
        THEN [op |-> op, user |-> u, id |-> 0, code |-> "200", errors |-> {},
              available_slots |-> <<>>]
        ELSE [op |-> op, user |-> u, id |-> 0, code |-> "200", errors |-> {},
              available_slots |-> listed, count |-> Len(listed)]

\* the handler: a read, answered from the table as it is
AvailableSlots(u, doctor_id, date_str) ==
    /\ last' = available_slots(bookings, u, doctor_id, date_str)
    /\ UNCHANGED <<bookings, nextId, inflight>>

-----------------------------------------------------------------------------
(* Requests.  Each handler is offered every request over the given callers,   *)
(* accounts named in the body, times and bodies.                              *)

Optional(S) == {{}} \cup {{x} : x \in S}

Targets == 1 .. MaxBookings

CreateRequest(C, P, D, T) ==
    \E u \in C, p \in P, d \in D, t \in T : Create(u, p, d, t, Blank, Blank)

UpdateRequest(C, B) ==
    \E u \in C, id \in Targets, partial \in BOOLEAN, body \in B : Update(u, id, partial, body)

DestroyRequest(C) == \E u \in C, id \in Targets : Destroy(u, id)

CancelRequest(C, R) == \E u \in C, id \in Targets, r \in R : Cancel(u, id, r)

ConfirmRequest(C) == \E u \in C, id \in Targets : Confirm(u, id)

CompleteRequest(C) == \E u \in C, id \in Targets : Complete(u, id)

AvailableSlotsRequest(C, D, S) ==
    \E u \in C, doctor_id \in D, date_str \in S : AvailableSlots(u, doctor_id, date_str)

\* BookingCreateSerializer.Meta.fields: the keys of the request body the serializer
\* reads are patient, doctor, appointment_datetime, reason and notes; any other
\* key of the body, a status among them, is dropped
CreateFromBody(u, body) ==
    Create(u, body.patient, body.doctor, body.at, body.reason, body.notes)

CreateBodyRequest(C, B) == \E u \in C, body \in B : CreateFromBody(u, body)

-----------------------------------------------------------------------------
(* Spec: every handler, requests handled one at a time *)

\* Monday 10:00 and 10:15, Tuesday 10:00
Times == {At(0, 10, 0), At(0, 10, 15), At(1, 10, 0)}

\* an administrator, a doctor and a patient; the bookings they address are their
\* own or another patient's
Callers == {"adm", "doc1", "pat1"}

PatientsNamed == {"pat1", "pat2", NoUser}
DoctorsNamed == {"doc1", "doc3"}

\* PUT/PATCH bodies: nothing, a new time, or a new status
Bodies ==
    [at : Optional(Times), status : {{}}, reason : {{}}, notes : {{}}]
    \cup [at : {{}}, status : Optional(Statuses), reason : {{}}, notes : {{}}]

Next ==
    \/ CreateRequest(Callers, PatientsNamed, DoctorsNamed, Times)
    \/ UpdateRequest(Callers, Bodies)
    \/ DestroyRequest(Callers)
    \/ CancelRequest(Callers, {Blank})
    \/ ConfirmRequest(Callers)
    \/ CompleteRequest(Callers)

Spec == Init /\ [][Next]_vars

-----------------------------------------------------------------------------
(* SpecCreate: create requests only, handled one at a time *)

\* Monday 10:00, 10:15, 10:30 and Tuesday 10:00
CreateTimes == {At(0, 10, 0), At(0, 10, 15), At(0, 10, 30), At(1, 10, 0)}

CreateCallers == {"adm", "doc1", "pat1", "pat2"}

CreateDoctorsNamed == {"doc1", "doc2", "doc3"}

NextCreate == CreateRequest(CreateCallers, PatientsNamed, CreateDoctorsNamed, CreateTimes)

SpecCreate == Init /\ [][NextCreate]_vars

-----------------------------------------------------------------------------
(* SpecConc: two workers each handle one create request; the queries of       *)
(* is_valid, the query of Booking.clean and the INSERT are separate database  *)
(* statements, and nothing in create holds a lock or a transaction across     *)
(* them, so the statements of the two workers interleave.                     *)

Answered(w, code) == [inflight[w] EXCEPT !.pc = "done", !.code = code]

\* create up to the end of serializer.is_valid(): the permission, the field
\* validators, and validate() with its two reads of the table
Receive(w, u, p, d, t) ==
    /\ inflight[w].pc = "idle"
    /\ UNCHANGED <<bookings, nextId>>
    /\ LET req == [inflight[w] EXCEPT !.user = u, !.patient = p, !.doctor = d, !.at = t]
       IN  IF ~CanCreateBooking(u, p)
           THEN /\ inflight' = [inflight EXCEPT ![w] = [req EXCEPT !.pc = "done", !.code = "403"]]
                /\ last' = Resp("create", u, 0, "403", {"denied"})
           ELSE IF CreateFieldErrors(p, d, t) # {}
           THEN /\ inflight' = [inflight EXCEPT ![w] = [req EXCEPT !.pc = "done", !.code = "400"]]
                /\ last' = Resp("create", u, 0, "400", CreateFieldErrors(p, d, t))
           ELSE IF ConflictErrors(bookings, p, d, t) # {}
           THEN /\ inflight' = [inflight EXCEPT ![w] = [req EXCEPT !.pc = "done", !.code = "400"]]
                /\ last' = Resp("create", u, 0, "400", ConflictErrors(bookings, p, d, t))
           ELSE /\ inflight' = [inflight EXCEPT ![w] = [req EXCEPT !.pc = "valid"]]
                /\ UNCHANGED last

\* the row serializer.save() is about to store
PendingRow(w) ==
    NewRow(inflight[w].user, inflight[w].patient, inflight[w].doctor, inflight[w].at,
           Blank, Blank)

\* serializer.save() -> Booking.save() -> clean(): one more read of the table
CleanRead(w) ==
    /\ inflight[w].pc = "valid"
    /\ UNCHANGED <<bookings, nextId>>
    /\ IF CleanRejects(bookings, PendingRow(w), 0)
       THEN /\ inflight' = [inflight EXCEPT ![w] = Answered(w, "500")]
            /\ last' = Resp("create", inflight[w].user, 0, "500", {"clean_rejected"})
       ELSE /\ inflight' = [inflight EXCEPT ![w].pc = "clean"]
            /\ UNCHANGED last

\* super().save(): the INSERT, and the 201 response
InsertRow(w) ==
    /\ inflight[w].pc = "clean"
    /\ bookings' = Insert(bookings, PendingRow(w))
    /\ nextId' = nextId + 1
    /\ inflight' = [inflight EXCEPT ![w] = Answered(w, "201")]
    /\ last' = Resp("create", inflight[w].user, nextId, "201", {})

\* the two workers' requests: an administrator or the patient, for the patient,
\* at Monday 10:00 or 10:15 or Tuesday 10:00
ConcCallers == {"adm", "pat1"}

NextConc ==
    \E w \in Procs :
        \/ \E u \in ConcCallers, p \in {"pat1", "pat2"}, d \in {"doc1", "doc2"}, t \in Times :
               Receive(w, u, p, d, t)
        \/ CleanRead(w)
        \/ InsertRow(w)

SpecConc == Init /\ [][NextConc]_vars

-----------------------------------------------------------------------------
(* SpecConcStatus: two workers each handle one cancel, confirm or complete    *)
(* request.  get_object and the status checks read the row; booking.save()    *)
(* later writes every field of the instance the worker holds.  No handler     *)
(* takes a lock, opens a transaction or compares a version, so the reads and  *)
(* writes of the two workers interleave.                                      *)

\* the errors of the status check of a custom action
StatusCheckErrors(op, row) ==
    IF op = "cancel" THEN CancelErrors(row)
    ELSE IF op = "confirm" THEN ConfirmErrors(row)
    ELSE CompleteErrors(row)

\* the instance a custom action saves, from the instance it read
TransitionRow(op, row) ==
    IF op = "cancel" THEN CancelledRow(row, Blank)
    ELSE IF op = "confirm" THEN [row EXCEPT !.status = "confirmed"]
    ELSE [row EXCEPT !.status = "completed"]

\* a worker's record of its request: the action, the instance it read, the answer
Held(pc, op, u, id, row, code) ==
    [pc |-> pc, op |-> op, user |-> u, id |-> id, row |-> row, code |-> code]

\* booking = self.get_object() and the status checks
ReadBooking(w, op, u, id) ==
    /\ inflight[w].pc = "idle"
    /\ UNCHANGED <<bookings, nextId>>
    /\ LET code == ObjectCode(u, id, ActionPermission(op, u, bookings[id]))
       IN  IF code # "200"
           THEN /\ inflight' = [inflight EXCEPT ![w] = Held("done", op, u, id, <<>>, code)]
                /\ last' = Resp(op, u, id, code, {"denied"})
           ELSE IF StatusCheckErrors(op, bookings[id]) # {}
           THEN /\ inflight' = [inflight EXCEPT
                                   ![w] = Held("done", op, u, id, bookings[id], "400")]
                /\ last' = Resp(op, u, id, "400", StatusCheckErrors(op, bookings[id]))
           ELSE /\ inflight' = [inflight EXCEPT
                                   ![w] = Held("read", op, u, id, bookings[id], "none")]
                /\ UNCHANGED last

\* booking.status = ...; booking.save(): clean(), then the UPDATE of every field
SaveBooking(w) ==
    /\ inflight[w].pc = "read"
    /\ UNCHANGED nextId
    /\ LET h == inflight[w]
           row == TransitionRow(h.op, h.row)
       IN  IF CleanRejects(bookings, row, h.id)
           THEN /\ inflight' = [inflight EXCEPT ![w] = [h EXCEPT !.pc = "done", !.code = "500"]]
                /\ last' = Resp(h.op, h.user, h.id, "500", {"clean_rejected"})
                /\ UNCHANGED bookings
           ELSE /\ bookings' = Store(bookings, h.id, row)
                /\ inflight' = [inflight EXCEPT ![w] = [h EXCEPT !.pc = "done", !.code = "200"]]
                /\ last' = Resp(h.op, h.user, h.id, "200", {})

ConcStatusOps == {"cancel", "confirm", "complete"}

\* Monday 10:00 and Tuesday 10:00
ConcStatusTimes == {At(0, 10, 0), At(1, 10, 0)}

\* bookings are created by the office; the two workers' requests come from the
\* office or from the patient
CreateForConcStatus ==
    /\ \A w \in Procs : inflight[w].pc = "idle"
    /\ CreateRequest({"adm"}, {"pat1"}, {"doc1"}, ConcStatusTimes)

NextConcStatus ==
    \/ CreateForConcStatus
    \/ \E w \in Procs :
          \/ \E op \in ConcStatusOps, u \in {"adm", "pat1"}, id \in Targets :
                 ReadBooking(w, op, u, id)
          \/ SaveBooking(w)

SpecConcStatus == Init /\ [][NextConcStatus]_vars

-----------------------------------------------------------------------------
(* SpecCancel: bookings created with or without notes, with or without a      *)
(* status key in the body, and cancelled with or without a reason             *)

Note == <<"note">>
Why == <<"why">>

\* Monday 10:00 and Tuesday 10:00
CancelTimes == {At(0, 10, 0), At(1, 10, 0)}

CancelBodies ==
    [patient : {"pat1", "pat2"}, doctor : {"doc1"}, at : CancelTimes,
     status : Optional({"confirmed", "completed"}), reason : {Blank}, notes : {Blank, Note}]

CancelCallers == {"adm", "rec", "doc1", "pat1"}

CancelReasons == {Blank, Why}

NextCancel ==
    \/ CreateBodyRequest(CancelCallers, CancelBodies)
    \/ CancelRequest(CancelCallers, CancelReasons)

SpecCancel == Init /\ [][NextCancel]_vars

-----------------------------------------------------------------------------
(* SpecCalendar: create and update requests whose appointment_datetime is in  *)
(* the past, is the present instant, lies outside the working hours, falls on *)
(* a Friday, or is acceptable                                                 *)

\* Monday 07:30 and 08:30 (before now), Monday 09:00 (now), Monday 10:00,
\* Tuesday 07:30, 08:00, 19:30 and 20:00, Friday 10:00
CalendarTimes ==
    {At(0, 7, 30), At(0, 8, 30), At(0, 9, 0), At(0, 10, 0),
     At(1, 7, 30), At(1, 8, 0), At(1, 19, 30), At(1, 20, 0), At(4, 10, 0)}

CalendarCallers == {"adm", "pat1"}

\* PUT/PATCH bodies: nothing or a new time
CalendarBodies == [at : Optional(CalendarTimes), status : {{}}, reason : {{}}, notes : {{}}]

NextCalendar ==
    \/ CreateRequest(CalendarCallers, {"pat1", "pat2"}, {"doc1"}, CalendarTimes)
    \/ UpdateRequest(CalendarCallers, CalendarBodies)

SpecCalendar == Init /\ [][NextCalendar]_vars

-----------------------------------------------------------------------------
(* SpecSlots: bookings are created and cancelled, and the slots of a doctor   *)
(* are listed for a past date, for today, for a later working day and for a   *)
(* Friday                                                                     *)

\* Monday 10:00 and 10:15, Tuesday 10:00 and 19:30
SlotTimes == {At(0, 10, 0), At(0, 10, 15), At(1, 10, 0), At(1, 19, 30)}

\* the Sunday before, Monday (today), Tuesday, Friday
SlotDays == {0 - 1, 0, 1, 4}

\* the date parameter: absent, not a date, or one of the days
SlotDates ==
    Optional({[wellformed |-> FALSE, day |-> 0]}
             \cup {[wellformed |-> TRUE, day |-> n] : n \in SlotDays})

SlotDoctors == Optional({"doc1", "doc2"})

NextSlots ==
    \/ CreateRequest({"adm"}, {"pat1", "pat2"}, {"doc1", "doc2"}, SlotTimes)
    \/ CancelRequest({"adm"}, {Blank})
    \/ AvailableSlotsRequest({"pat1"}, SlotDoctors, SlotDates)

SpecSlots == Init /\ [][NextSlots]_vars

-----------------------------------------------------------------------------
(* SpecPatientUpdate: patients send PUT and PATCH requests that carry any mix *)
(* of a time, a status, a reason and notes, for their own and for the other   *)
(* patient's bookings, pending or confirmed                                   *)

\* Monday 10:00 and Tuesday 10:00
PatientUpdateTimes == {At(0, 10, 0), At(1, 10, 0)}

PatientUpdateBodies ==
    [at : Optional(PatientUpdateTimes), status : Optional({"confirmed", "cancelled"}),
     reason : Optional({Why}), notes : Optional({Note})]

NextPatientUpdate ==
    \/ CreateRequest({"adm"}, {"pat1", "pat2"}, {"doc1"}, PatientUpdateTimes)
    \/ ConfirmRequest({"adm"})
    \/ UpdateRequest({"pat1", "pat2"}, PatientUpdateBodies)

SpecPatientUpdate == Init /\ [][NextPatientUpdate]_vars

-----------------------------------------------------------------------------
(* SpecDoctorUpdate: doctors send PUT and PATCH requests that carry any mix   *)
(* of a time, a status, a reason and notes, for bookings of their own and of  *)
(* the other doctor                                                           *)

DoctorUpdateBodies ==
    [at : Optional(PatientUpdateTimes), status : Optional({"confirmed", "cancelled"}),
     reason : Optional({Why}), notes : Optional({Note})]

NextDoctorUpdate ==
    \/ CreateRequest({"adm"}, {"pat1"}, {"doc1", "doc2"}, PatientUpdateTimes)
    \/ UpdateRequest({"doc1", "doc2"}, DoctorUpdateBodies)

SpecDoctorUpdate == Init /\ [][NextDoctorUpdate]_vars

-----------------------------------------------------------------------------
(* SpecOwnership: the office creates bookings of two patients with two        *)
(* doctors, confirms and completes them; the office, a doctor and a patient   *)
(* send cancel requests for bookings that are theirs and that are not         *)

\* Monday 10:00 and Tuesday 10:00
OwnershipTimes == {At(0, 10, 0), At(1, 10, 0)}

OwnershipCallers == {"adm", "rec", "doc1", "pat1"}

NextOwnership ==
    \/ CreateRequest({"adm"}, {"pat1", "pat2"}, {"doc1", "doc2"}, OwnershipTimes)
    \/ ConfirmRequest({"adm"})
    \/ CompleteRequest({"adm"})
    \/ CancelRequest(OwnershipCallers, {Blank})

SpecOwnership == Init /\ [][NextOwnership]_vars

-----------------------------------------------------------------------------
(* Completion without confirmation: the office books, staff complete or the   *)
(* office cancels; no booking is ever confirmed.                              *)

CompleteTimes == {At(0, 10, 0), At(1, 10, 0)}

\* request.user of the complete requests: office staff and two doctors
CompleteCallers == {"adm", "rec", "doc1", "doc2"}

NextComplete ==
    \/ CreateRequest({"adm"}, {"pat1", "pat2"}, {"doc1"}, CompleteTimes)
    \/ CompleteRequest(CompleteCallers)
    \/ CancelRequest({"adm"}, {Blank})

SpecComplete == Init /\ [][NextComplete]_vars

-----------------------------------------------------------------------------
(* The order of the checks of create: requests that break several rules at    *)
(* once.  All bookings are with one doctor.                                   *)

\* Monday 07:30 (past, and before opening), Monday 10:00 and 10:30, Monday 20:00
\* (after closing), Tuesday 10:00
OrderTimes == {At(0, 7, 30), At(0, 10, 0), At(0, 10, 30), At(0, 20, 0), At(1, 10, 0)}

\* Friday of last week 10:00 (past, and a closed day), Friday 10:00, Friday 21:00
\* (after closing, and a closed day)
OrderFridayTimes == {At(0 - 3, 10, 0), At(4, 10, 0), At(4, 21, 0)}

OrderPatients == {"pat1", "pat2"}

OrderDoctors == {"doc1"}

\* the administrator sends the Monday and Tuesday requests, the receptionist
\* the Friday ones
NextOrder ==
    \/ CreateRequest({"adm"}, OrderPatients, OrderDoctors, OrderTimes)
    \/ CreateRequest({"rec"}, OrderPatients, OrderDoctors, OrderFridayTimes)
    \/ CancelRequest({"adm"}, {Blank})

SpecOrder == Init /\ [][NextOrder]_vars

-----------------------------------------------------------------------------
(* Saving a stored booking: the administrator books doc1 for Monday 10:00 and *)
(* doc2 for Tuesday 10:00, moves bookings to Monday 10:15, edits the reason,  *)
(* confirms, completes and cancels.                                           *)

RescheduleTo == {At(0, 10, 15)}

\* PUT/PATCH bodies: nothing, a new time, a new reason, or both
RescheduleBodies == [at : Optional(RescheduleTo), status : {{}}, reason : Optional({Why}), notes : {{}}]

NextReschedule ==
    \/ CreateRequest({"adm"}, {"pat1", "pat2"}, {"doc1"}, {At(0, 10, 0)})
    \/ CreateRequest({"adm"}, {"pat1", "pat2"}, {"doc2"}, {At(1, 10, 0)})
    \/ UpdateRequest({"adm"}, RescheduleBodies)
    \/ ConfirmRequest({"adm"})
    \/ CompleteRequest({"adm"})
    \/ CancelRequest({"adm"}, {Blank})

SpecReschedule == Init /\ [][NextReschedule]_vars

-----------------------------------------------------------------------------
(* Properties.  They measure days and gaps on their own, not through the      *)
(* operators of the handlers.                                                 *)

Live(db) == {i \in DOMAIN db : db[i].status # "cancelled"}

SameDay(t1, t2) == t1 \div 1440 = t2 \div 1440

Gap(t1, t2) == IF t1 >= t2 THEN t1 - t2 ELSE t2 - t1

Terminal == {"completed", "cancelled"}

IsUpdateOp(r) == r.op = "update"

\* at most one live booking per patient and calendar day
PatientDayUnique(db) ==
    \A i, j \in Live(db) :
        (i # j /\ db[i].patient = db[j].patient) => ~SameDay(db[i].at, db[j].at)

\* no two live bookings of one doctor less than 30 minutes apart
DoctorSlotsExclusive(db) ==
    \A i, j \in Live(db) :
        (i # j /\ db[i].doctor = db[j].doctor) => Gap(db[i].at, db[j].at) >= 30

\* C1: after any sequence of create requests handled one at a time, every patient
\* has at most one booking that is not cancelled on any calendar day.
C1_PatientDayUniqueUnderCreate ==
    \A p \in Accounts, i \in Live(bookings) :
        bookings[i].patient = p =>
            Cardinality({j \in Live(bookings) :
                            bookings[j].patient = p /\ SameDay(bookings[j].at, bookings[i].at)}) = 1

\* C1 witness: a patient who holds a booking asked for a second one on a day they
\* are booked and was refused with the patient-day conflict.
C1_Witness ==
    /\ last.op = "create"
    /\ last.code = "400"
    /\ last.errors = {"patient_day_conflict"}
    /\ \E i \in Live(bookings) : bookings[i].patient = last.user

\* C2: after any sequence of create requests handled one at a time, no two bookings
\* that are not cancelled have the same doctor and times less than 30 minutes apart.
C2_DoctorSlotsExclusiveUnderCreate == DoctorSlotsExclusive(bookings)

\* C2 witness: a create was refused because the doctor is taken around that time.
C2_Witness ==
    /\ last.op = "create"
    /\ last.code = "400"
    /\ last.errors = {"doctor_slot_conflict"}
    /\ Live(bookings) # {}

\* C3: when two permitted create requests for the same patient, doctor and time are
\* handled concurrently, exactly one of them succeeds and one booking is stored.
C3_ExactlyOneConcurrentCreateSucceeds ==
    \A w, v \in Procs :
        ( /\ w # v
          /\ inflight[w].pc = "done" /\ inflight[v].pc = "done"
          /\ CanCreateBooking(inflight[w].user, inflight[w].patient)
          /\ CanCreateBooking(inflight[v].user, inflight[v].patient)
          /\ inflight[w].patient = inflight[v].patient
          /\ inflight[w].doctor = inflight[v].doctor
          /\ inflight[w].at = inflight[v].at )
        => /\ (inflight[w].code = "201") # (inflight[v].code = "201")
           /\ Cardinality({i \in Ids : /\ bookings[i].patient = inflight[w].patient
                                       /\ bookings[i].doctor = inflight[w].doctor
                                       /\ bookings[i].at = inflight[w].at}) = 1

\* C4: an update never gives a doctor two live bookings less than 30 minutes apart:
\* such an update is refused and the table is left as it was.
C4_RescheduleKeepsDoctorSlots ==
    [][(IsUpdateOp(last') /\ DoctorSlotsExclusive(bookings))
          => DoctorSlotsExclusive(bookings')]_vars

\* C5: in every state reached by any mix of create, update, cancel, confirm,
\* complete (and destroy) requests handled one at a time, every patient has at most
\* one booking that is not cancelled per calendar day.
C5_PatientDayUniqueAlways == PatientDayUnique(bookings)

\* C5 witness: a reschedule onto a day the patient is already booked was refused,
\* and the patient holds two live bookings on different days.
C5_Witness ==
    /\ IsUpdateOp(last)
    /\ last.errors = {"clean_rejected"}
    /\ \E i, j \in Live(bookings) :
          /\ i # j
          /\ last.id = i
          /\ bookings[i].patient = bookings[j].patient
          /\ ~SameDay(bookings[i].at, bookings[j].at)

\* C6: once a booking is completed or cancelled, no cancel, confirm, complete or
\* update changes its status, its time, its patient or its doctor.
C6_TerminalImmutable ==
    [][\A i \in Ids :
          (bookings[i].status \in Terminal /\ last'.op \in {"cancel", "confirm", "complete", "update"})
          => /\ i \in DOMAIN bookings'
             /\ bookings'[i].status = bookings[i].status
             /\ bookings'[i].at = bookings[i].at
             /\ bookings'[i].patient = bookings[i].patient
             /\ bookings'[i].doctor = bookings[i].doctor]_vars

AllowedStatusChanges ==
    {<<"pending", "confirmed">>, <<"pending", "cancelled">>,
     <<"confirmed", "completed">>, <<"confirmed", "cancelled">>}

\* C7: the only status changes that ever occur are pending->confirmed,
\* pending->cancelled, confirmed->completed and confirmed->cancelled.
C7_StatusMonotonic ==
    [][\A i \in Ids \cap DOMAIN bookings' :
          bookings'[i].status # bookings[i].status
          => <<bookings[i].status, bookings'[i].status>> \in AllowedStatusChanges]_vars

\* C8: a confirm request issued by a patient is refused and changes nothing.
C8_ConfirmStaffOnly ==
    [][(last'.op = "confirm" /\ UserType(last'.user) = "patient")
          => (~Succeeded(last') /\ bookings' = bookings)]_vars

\* C9: a complete request issued by a patient is refused and changes nothing.
C9_CompleteStaffOnly ==
    [][(last'.op = "complete" /\ UserType(last'.user) = "patient")
          => (~Succeeded(last') /\ bookings' = bookings)]_vars

\* C10: confirm succeeds only on a booking whose status is pending, which it turns
\* to confirmed; otherwise it answers with an error and changes nothing.
C10_ConfirmRequiresPending ==
    [][last'.op = "confirm"
          => IF Succeeded(last')
             THEN /\ last'.id \in Ids
                  /\ bookings[last'.id].status = "pending"
                  /\ bookings' = [bookings EXCEPT ![last'.id].status = "confirmed"]
             ELSE bookings' = bookings]_vars

\* C10 witness: an administrator's confirm of a cancelled booking was answered 400.
C10_Witness ==
    /\ last.op = "confirm"
    /\ UserType(last.user) = "admin"
    /\ last.code = "400"
    /\ last.errors = {"not_pending"}
    /\ last.id \in Ids
    /\ bookings[last.id].status = "cancelled"

IsPrefix(s, t) == Len(s) <= Len(t) /\ SubSeq(t, 1, Len(s)) = s

IsSuffix(s, t) == Len(s) <= Len(t) /\ SubSeq(t, Len(t) - Len(s) + 1, Len(t)) = s

\* C11: after a successful cancel carrying a non-empty reason, the booking's notes
\* begin with everything they held before the call and end with the reason.
C11_CancelReasonAppended ==
    [][(last'.op = "cancel" /\ Succeeded(last'))
          => \A u \in CancelCallers, id \in Ids, r \in CancelReasons \ {Blank} :
                Cancel(u, id, r)
                => /\ IsPrefix(bookings[id].notes, bookings'[id].notes)
                   /\ IsSuffix(r, bookings'[id].notes)]_vars

\* C12: every successful create stores one new booking whose status is pending,
\* whoever sent the request and whatever status key its body carried (the create
\* requests of SpecCancel come from every role, with and without a status key).
C12_CreatedPending ==
    [][(last'.op = "create" /\ Succeeded(last'))
          => /\ last'.id \notin Ids
             /\ last'.id \in DOMAIN bookings'
             /\ bookings'[last'.id].status = "pending"]_vars

\* C12 witness: a receptionist's create and a patient's create both succeeded and
\* both bookings are pending.
C12_Witness ==
    /\ last.op = "create"
    /\ last.code = "201"
    /\ UserType(last.user) = "patient"
    /\ last.id = 2
    /\ 1 \in Ids
    /\ bookings[1].status = "pending"
    /\ bookings[2].status = "pending"
    /\ bookings[1].patient # bookings[2].patient

\* C13: a booking created by a patient is that patient's own; a patient's create
\* naming another patient is refused and stores nothing; a doctor's create is
\* refused and stores nothing.
C13_NoProxyBooking ==
    [][last'.op = "create"
          => /\ (UserType(last'.user) = "patient" /\ Succeeded(last'))
                => /\ last'.id \in DOMAIN bookings'
                   /\ bookings'[last'.id].patient = last'.user
             /\ UserType(last'.user) = "doctor"
                => (~Succeeded(last') /\ bookings' = bookings)
             /\ UserType(last'.user) = "patient"
                => \A p \in PatientsNamed \ {last'.user, NoUser},
                      d \in CreateDoctorsNamed, t \in CreateTimes :
                      Create(last'.user, p, d, t, Blank, Blank)
                      => (~Succeeded(last') /\ bookings' = bookings)]_vars

\* C13 witness: a patient who holds a booking was refused a create (403), and the
\* other patient holds no booking.
C13_Witness ==
    /\ last.op = "create"
    /\ UserType(last.user) = "patient"
    /\ last.code = "403"
    /\ \E i \in Ids : bookings[i].patient = last.user
    /\ \A i \in Ids : bookings[i].patient = last.user

\* strictly after now, hour in 8..19, not a Friday
CalendarValid(t) ==
    /\ t > Now
    /\ (t % 1440) \div 60 >= 8
    /\ (t % 1440) \div 60 < 20
    /\ (t \div 1440) % 7 # 4

\* C14: a create, or an update that carries a time, whose time is not strictly
\* after now, or has an hour outside 8..19, or falls on a Friday, is refused and
\* leaves the table as it was; so whatever is accepted is calendar-valid.
C14_CalendarValidity ==
    [][/\ last'.op = "create"
          => \A u \in CalendarCallers, p \in {"pat1", "pat2"}, t \in CalendarTimes :
                (~CalendarValid(t) /\ Create(u, p, "doc1", t, Blank, Blank))
                => (~Succeeded(last') /\ bookings' = bookings)
       /\ last'.op = "update"
          => \A u \in CalendarCallers, id \in Targets, partial \in BOOLEAN,
                t \in CalendarTimes :
                (~CalendarValid(t)
                    /\ Update(u, id, partial,
                              [at |-> {t}, status |-> {}, reason |-> {}, notes |-> {}]))
                => (~Succeeded(last') /\ bookings' = bookings)]_vars

\* C14 witness: an administrator's update of an existing booking to 20:00, or to a
\* Friday, was answered 400, and the booking is at a calendar-valid time.
C14_Witness ==
    /\ last.op = "update"
    /\ last.user = "adm"
    /\ last.code = "400"
    /\ last.errors \in {{"outside_hours"}, {"closed_day"}}
    /\ last.id \in Ids
    /\ CalendarValid(bookings[last.id].at)

\* the doctor has a live booking at some E with t - 30 <= E < t + 30
InWindow(db, d, t) ==
    \E i \in Live(db) : db[i].doctor = d /\ t - 30 <= db[i].at /\ db[i].at < t + 30

\* C15: a create for doctor d at time t that finds a live booking of d in
\* [t - 30, t + 30) is refused, and a create refused for the doctor's slot found
\* one there; so of two live bookings of one doctor created one after the other,
\* the later-created one is 30 minutes or more before, or more than 30 minutes
\* after, the earlier-created one.
C15_HalfOpenWindow ==
    /\ [][last'.op = "create"
             => /\ Succeeded(last')
                   => /\ last'.id \in DOMAIN bookings'
                      /\ ~InWindow(bookings, bookings'[last'.id].doctor, bookings'[last'.id].at)
                /\ ~Succeeded(last') => bookings' = bookings
                /\ last'.errors = {"doctor_slot_conflict"}
                   => \A p \in PatientsNamed, d \in CreateDoctorsNamed, t \in CreateTimes :
                         Create(last'.user, p, d, t, Blank, Blank)
                         => InWindow(bookings, d, t)]_vars
    /\ [](\A i, j \in Live(bookings) :
             (i < j /\ bookings[i].doctor = bookings[j].doctor)
             => \/ bookings[j].at <= bookings[i].at - 30
                \/ bookings[j].at > bookings[i].at + 30)

\* C15 witness: a doctor holds a booking at T + 30 min and, created after it, a
\* booking at T.
C15_Witness ==
    /\ last.op = "create"
    /\ last.code = "201"
    /\ last.id = 2
    /\ 1 \in Live(bookings)
    /\ bookings[1].doctor = bookings[2].doctor
    /\ bookings[1].at = bookings[2].at + 30

\* C16: a create that is permitted, names a calendar-valid time, and finds no live
\* booking of the patient on that day and no live booking of the doctor in the
\* window succeeds, whatever cancelled bookings the table holds.
C16_CancelledDoNotBlock ==
    [][(last'.op = "create" /\ ~Succeeded(last'))
          => \A body \in CancelBodies :
                ~ /\ CreateFromBody(last'.user, body)
                  /\ UserType(last'.user) \in {"admin", "receptionist"} \/ last'.user = body.patient
                  /\ CalendarValid(body.at)
                  /\ ~\E i \in Live(bookings) :
                         bookings[i].patient = body.patient /\ SameDay(bookings[i].at, body.at)
                  /\ ~InWindow(bookings, body.doctor, body.at)]_vars

\* C16 witness: booking 1 is cancelled, and booking 2, created after it for the
\* same patient and doctor at the same time, is live.
C16_Witness ==
    /\ last.op = "create"
    /\ last.code = "201"
    /\ last.id = 2
    /\ 1 \in Ids
    /\ bookings[1].status = "cancelled"
    /\ bookings[2].status = "pending"
    /\ bookings[2].patient = bookings[1].patient
    /\ bookings[2].doctor = bookings[1].doctor
    /\ bookings[2].at = bookings[1].at

\* the texts of the 24 grid slots of a day, 08:00 to 19:30, in ascending order
GridTexts(day) == [k \in 1 .. 24 |-> <<day, 8 + ((k - 1) \div 2), 30 * ((k - 1) % 2), 0>>]

\* the instant a slot text names
TextTime(s) == s[1] * 1440 + s[2] * 60 + s[3]

Today == Now \div 1440

OnDay(n) == {[wellformed |-> TRUE, day |-> n]}

\* C17: listing a doctor who has no booking on a date that is today or later and
\* not a Friday answers with the grid slots 08:00 .. 19:30 of that date that are
\* strictly after now, in ascending order, and with their number as count; for a
\* later date these are all 24.
C17_EmptyDayListing ==
    [][last'.op = "available_slots"
          => \A d \in {"doc1", "doc2"}, n \in SlotDays :
                ( /\ n >= Today
                  /\ n % 7 # 4
                  /\ ~\E i \in Ids : bookings[i].doctor = d /\ bookings[i].at \div 1440 = n
                  /\ last' = available_slots(bookings, last'.user, {d}, OnDay(n)) )
                => /\ last'.code = "200"
                   /\ last'.available_slots
                         = SelectSeq(GridTexts(n), LAMBDA s : TextTime(s) > Now)
                   /\ last'.count = Len(last'.available_slots)
                   /\ n > Today => last'.count = 24]_vars

\* C17 witness: the table holds bookings, none of them on Tuesday, and the last
\* listing has the 24 slots of Tuesday from 08:00 to 19:30.
C17_Witness ==
    /\ last.op = "available_slots"
    /\ last.code = "200"
    /\ Ids # {}
    /\ \A i \in Ids : bookings[i].at \div 1440 # 1
    /\ "count" \in DOMAIN last
    /\ last.count = 24
    /\ last.available_slots[1] = <<1, 8, 0, 0>>
    /\ last.available_slots[24] = <<1, 19, 30, 0>>

\* C18: a listing for a date that is today or later and not a Friday answers with
\* exactly the grid slots of the date that are strictly after now and are not the
\* exact time of a live booking of that doctor, in ascending order.
C18_ExactMatchExclusion ==
    [][last'.op = "available_slots"
          => \A d \in {"doc1", "doc2"}, n \in SlotDays :
                ( /\ n >= Today
                  /\ n % 7 # 4
                  /\ last' = available_slots(bookings, last'.user, {d}, OnDay(n)) )
                => /\ last'.code = "200"
                   /\ last'.available_slots
                         = SelectSeq(GridTexts(n),
                                     LAMBDA s : /\ TextTime(s) > Now
                                                /\ ~\E i \in Live(bookings) :
                                                       /\ bookings[i].doctor = d
                                                       /\ bookings[i].at = TextTime(s))]_vars

\* C18 witness: a doctor has a live booking on Tuesday at 10:00 and a cancelled
\* one at 19:30; the listing lacks 10:00 only and keeps 09:30, 10:30 and 19:30.
C18_Witness ==
    /\ last.op = "available_slots"
    /\ last.code = "200"
    /\ \E i, j \in Ids :
          /\ bookings[i].doctor = bookings[j].doctor
          /\ bookings[i].at = 1440 + 600 /\ bookings[i].status # "cancelled"
          /\ bookings[j].at = 1440 + 1170 /\ bookings[j].status = "cancelled"
    /\ "count" \in DOMAIN last
    /\ last.count = 23
    /\ \A k \in 1 .. 23 : last.available_slots[k] # <<1, 10, 0, 0>>
    /\ \E k \in 1 .. 23 : last.available_slots[k] = <<1, 9, 30, 0>>
    /\ \E k \in 1 .. 23 : last.available_slots[k] = <<1, 10, 30, 0>>
    /\ \E k \in 1 .. 23 : last.available_slots[k] = <<1, 19, 30, 0>>

\* C19: a listing for a date before today is answered with an error; a listing
\* for a Friday that is today or later is answered with success and no slots,
\* whatever bookings the table holds.
C19_PastErrorFridayEmpty ==
    [][last'.op = "available_slots"
          => \A d \in {"doc1", "doc2"}, n \in SlotDays :
                last' = available_slots(bookings, last'.user, {d}, OnDay(n))
                => /\ n < Today => ~Succeeded(last')
                   /\ (n >= Today /\ n % 7 = 4)
                      => (Succeeded(last') /\ last'.available_slots = <<>>)]_vars

\* C19 witness: two live bookings are in the table and the last listing, for a
\* Friday, succeeded with no slots.
C19_Witness ==
    /\ last.op = "available_slots"
    /\ last.code = "200"
    /\ last.available_slots = <<>>
    /\ Cardinality(Live(bookings)) = 2

\* C20: an update sent by a patient succeeds only on a pending booking of that
\* patient, and then the table differs from before in nothing but that booking's
\* reason; an update that does not succeed changes nothing.
C20_PatientUpdatesReasonOnly ==
    [][(last'.op = "update" /\ UserType(last'.user) = "patient")
          => IF Succeeded(last')
             THEN /\ last'.id \in Ids
                  /\ bookings[last'.id].patient = last'.user
                  /\ bookings[last'.id].status = "pending"
                  /\ DOMAIN bookings' = DOMAIN bookings
                  /\ bookings' = [bookings EXCEPT ![last'.id].reason = bookings'[last'.id].reason]
             ELSE bookings' = bookings]_vars

\* C20 witness: a patient's update of their own pending booking succeeded; the
\* booking carries the new reason, is still pending and has no notes, while the
\* other booking is confirmed.
C20_Witness ==
    /\ last.op = "update"
    /\ UserType(last.user) = "patient"
    /\ last.code = "200"
    /\ last.id \in Ids
    /\ bookings[last.id].patient = last.user
    /\ bookings[last.id].reason = Why
    /\ bookings[last.id].status = "pending"
    /\ bookings[last.id].notes = Blank
    /\ \E j \in Ids : bookings[j].status = "confirmed"

\* C21: an update sent by a doctor succeeds only on a booking whose doctor is
\* the sender, and then the table differs from before in nothing but that
\* booking's status and notes; an update that does not succeed changes nothing.
C21_DoctorUpdatesStatusAndNotesOnly ==
    [][(last'.op = "update" /\ UserType(last'.user) = "doctor")
          => IF Succeeded(last')
             THEN /\ last'.id \in Ids
                  /\ bookings[last'.id].doctor = last'.user
                  /\ DOMAIN bookings' = DOMAIN bookings
                  /\ bookings' = [bookings EXCEPT
                                     ![last'.id].status = bookings'[last'.id].status,
                                     ![last'.id].notes = bookings'[last'.id].notes]
             ELSE bookings' = bookings]_vars

\* C21 witness: a doctor's update of their own booking succeeded; the booking is
\* confirmed and carries notes, its reason is blank, and the other doctor's
\* booking is as it was created.
C21_Witness ==
    /\ last.op = "update"
    /\ UserType(last.user) = "doctor"
    /\ last.code = "200"
    /\ last.id \in Ids
    /\ bookings[last.id].doctor = last.user
    /\ bookings[last.id].status = "confirmed"
    /\ bookings[last.id].notes = Note
    /\ bookings[last.id].reason = Blank
    /\ \E j \in Ids : /\ bookings[j].doctor # last.user
                       /\ bookings[j].status = "pending"
                       /\ bookings[j].notes = Blank

\* the time t is free for booking id: no other live booking of its patient on the
\* day of t, none of its doctor within 30 minutes of t
ConflictFree(db, id, t) ==
    \A j \in Live(db) \ {id} :
        /\ db[j].patient = db[id].patient => ~SameDay(db[j].at, t)
        /\ db[j].doctor = db[id].doctor => Gap(db[j].at, t) >= 30

\* a patient's PUT or PATCH that carries the time t for their own pending booking
\* id, t being calendar-valid and conflict-free
PatientReschedule(id, t) ==
    /\ last'.op = "update"
    /\ UserType(last'.user) = "patient"
    /\ id \in Ids
    /\ bookings[id].patient = last'.user
    /\ bookings[id].status = "pending"
    /\ CalendarValid(t)
    /\ ConflictFree(bookings, id, t)
    /\ \E partial \in BOOLEAN, body \in PatientUpdateBodies :
          body.at = {t} /\ Update(last'.user, id, partial, body)

\* C22 as stated: when a patient submits a calendar-valid, conflict-free new time
\* for their own pending booking, the booking's time becomes the new time.
C22_PatientRescheduleMovesBooking ==
    [][\A id \in Targets, t \in PatientUpdateTimes :
          PatientReschedule(id, t) => bookings'[id].at = t]_vars

\* C22 amended: when a patient submits a calendar-valid, conflict-free new time
\* for their own pending booking, the request is answered with success and the
\* booking keeps the time it had; a patient's update writes the reason only.
C22_PatientRescheduleKeepsTime ==
    [][\A id \in Targets, t \in PatientUpdateTimes :
          PatientReschedule(id, t)
          => /\ Succeeded(last')
             /\ bookings'[id].at = bookings[id].at
             /\ bookings'[id].status = "pending"]_vars

\* C22 witness: a patient's update of their own pending Monday booking was
\* answered 200 and changed its reason; the booking is still on Monday and the
\* patient has no booking on Tuesday, the other time on offer.
C22_Witness ==
    /\ last.op = "update"
    /\ UserType(last.user) = "patient"
    /\ last.code = "200"
    /\ last.id \in Ids
    /\ bookings[last.id].patient = last.user
    /\ bookings[last.id].status = "pending"
    /\ bookings[last.id].at = 600
    /\ bookings[last.id].reason = Why
    /\ Cardinality(Ids) = 1

\* C23: when two status-changing requests on one booking both read it before
\* either wrote (they hold the same instance), at most one of them succeeds; and
\* no write changes a status that is cancelled or completed.
C23_StaleWritesRejected ==
    /\ [](\A w, v \in Procs :
             ( /\ w # v
               /\ inflight[w].pc = "done" /\ inflight[v].pc = "done"
               /\ inflight[w].id = inflight[v].id
               /\ inflight[w].row = inflight[v].row )
             => ~(inflight[w].code = "200" /\ inflight[v].code = "200"))
    /\ [][\A i \in Ids :
             bookings[i].status \in Terminal
             => bookings'[i].status = bookings[i].status]_vars

\* C24: a create, update, cancel, confirm or complete that is answered with an
\* error leaves the table, every row and every field of it, as it was.
C24_NoPartialWrites ==
    [][(last'.op \in {"create", "update", "cancel", "confirm", "complete"}
           /\ ~Succeeded(last'))
          => bookings' = bookings]_vars

\* C24 witness: a complete request on a cancelled booking was answered 400 and the
\* booking is still cancelled, next to a live booking.
C24_Witness ==
    /\ last.op = "complete"
    /\ last.code = "400"
    /\ last.errors = {"cancelled_locked"}
    /\ last.id \in Ids
    /\ bookings[last.id].status = "cancelled"
    /\ Live(bookings) # {}

\* the requester may cancel the row: office, the row's doctor, or the row's
\* patient while the row is pending or confirmed
MayCancel(u, row) ==
    \/ UserType(u) \in {"admin", "receptionist"}
    \/ UserType(u) = "doctor" /\ row.doctor = u
    \/ UserType(u) = "patient" /\ row.patient = u /\ row.status \in {"pending", "confirmed"}

\* C25: a cancel request changes the table only by turning the addressed booking
\* to cancelled, and only for a requester from the office, the booking's doctor,
\* or the booking's patient while it is pending or confirmed; a doctor's or
\* patient's cancel of a booking that is not theirs changes nothing.
C25_CancelOwnership ==
    [][last'.op = "cancel"
          => /\ bookings' # bookings
                => /\ last'.id \in Ids
                   /\ MayCancel(last'.user, bookings[last'.id])
                   /\ bookings' = [bookings EXCEPT ![last'.id].status = "cancelled"]
             /\ ( /\ last'.id \in Ids
                  /\ UserType(last'.user) \in {"doctor", "patient"}
                  /\ bookings[last'.id].doctor # last'.user
                  /\ bookings[last'.id].patient # last'.user )
                => bookings' = bookings]_vars

\* C25 witness: a doctor's cancel of a pending booking of the other doctor was
\* answered 404 and the booking is still pending.
C25_Witness ==
    /\ last.op = "cancel"
    /\ UserType(last.user) = "doctor"
    /\ last.code = "404"
    /\ last.id \in Ids
    /\ bookings[last.id].doctor # last.user
    /\ bookings[last.id].status = "pending"

\* C26: deletion is admin-only: a destroy request removes a booking only when
\* the requester's type is admin; a destroy request by a receptionist, doctor
\* or patient is rejected and the booking stays stored.
C26_DeleteAdminOnly ==
    [][(last'.op = "destroy" /\ UserType(last'.user) # "admin")
          => (~Succeeded(last') /\ bookings' = bookings)]_vars

C28_ValidationOrder ==
    [][(last'.op = "create" /\ last'.code = "400")
          => \A p \in OrderPatients, d \in OrderDoctors, t \in OrderTimes \cup OrderFridayTimes :
                Create(last'.user, p, d, t, Blank, Blank)
                   => last'.errors =
                        IF t <= Now THEN {"past"}
                        ELSE IF (t % 1440) \div 60 < 8 \/ (t % 1440) \div 60 >= 20
                             THEN {"outside_hours"}
                        ELSE IF (t \div 1440) % 7 = 4 THEN {"closed_day"}
                        ELSE IF \E i \in Live(bookings) :
                                   bookings[i].patient = p /\ SameDay(bookings[i].at, t)
                             THEN {"patient_day_conflict"}
                        ELSE {"doctor_slot_conflict"}]_vars

\* the administrator's requests are for Monday and Tuesday, so the one answered
\* with the working-hours error was for Monday 20:00; both patients have a live
\* booking on Monday, so it also had a patient-day conflict
C28_Witness ==
    /\ last.op = "create"
    /\ last.user = "adm"
    /\ last.errors = {"outside_hours"}
    /\ \A p \in OrderPatients :
          \E i \in Live(bookings) : bookings[i].patient = p /\ SameDay(bookings[i].at, At(0, 20, 0))

\* C29: a save of a stored booking that is not cancelled (an update by the
\* office, a confirm, a complete, a cancel) that gets as far as the save is
\* refused by the patient-day check exactly when the patient has another live
\* booking on the day of the saved time; the booking being saved never counts
\* against itself.
C29_SelfExclusion ==
    [][(/\ last'.op \in {"update", "cancel", "confirm", "complete"}
        /\ last'.code \in {"200", "500"}
        /\ last'.id \in Ids
        /\ bookings[last'.id].status # "cancelled")
          => \A body \in RescheduleBodies, partial \in BOOLEAN :
                (last'.op = "update" => Update(last'.user, last'.id, partial, body))
                   => LET id == last'.id
                          t == IF last'.op = "update" /\ body.at # {}
                               THEN CHOOSE x \in body.at : TRUE
                               ELSE bookings[id].at
                      IN  (last'.code = "500")
                             <=> \E i \in Live(bookings) \ {id} :
                                    /\ bookings[i].patient = bookings[id].patient
                                    /\ SameDay(bookings[i].at, t)]_vars

\* a booking with doc1 is created on Monday 10:00 and can only be moved within
\* Monday: this one was moved to 10:15 and the last update saved it while it
\* was live on that day
C29_Witness ==
    /\ last.op = "update"
    /\ Succeeded(last)
    /\ last.id \in Ids
    /\ bookings[last.id].doctor = "doc1"
    /\ bookings[last.id].at = At(0, 10, 15)
    /\ bookings[last.id].status # "cancelled"

\* C30: in every reachable state, every slot that available_slots returns for a
\* doctor and a date passes the doctor-availability check of create for that
\* doctor: no live booking of the doctor lies in [S - 30 min, S + 30 min) of a
\* returned slot S.
C30_BrowseCreateConsistency ==
    \A d \in {"doc1", "doc2"}, n \in SlotDays :
        LET r == available_slots(bookings, "pat1", {d}, OnDay(n))
        IN  r.code = "200"
               => \A k \in 1 .. Len(r.available_slots) :
                     ~DoctorBusyAround(bookings, d, TextTime(r.available_slots[k]))

====
